---- MODULE Spec2Model ----
(***************************************************************************)
(* Model of sifbuilder's software-package resolution and build actions:    *)
(*   statusparser.py  (parse_nmrbox_list, _maxpackage, _maxpackage_vers,   *)
(*                     Software)                                           *)
(*   __init__.py      (Package)                                            *)
(*   main.py          (Builder._parse, Builder.generate, Builder.sif,      *)
(*                     Builder.sandbox)                                    *)
(*   assembler.py     (Builder.generate, Builder.sif, Builder.sandbox,     *)
(*                     Builder._update_control, Builder.gen_swe)           *)
(* A string is a sequence of one-character strings, so that splitting,     *)
(* stripping, upper-casing, substring tests and Debian version comparison  *)
(* are computed character by character as the code computes them.          *)
(***************************************************************************)
EXTENDS Integers, Sequences, FiniteSets, TLC

VARIABLES f, bag, packages, index, pc, err, errinfo, software, requests, closed,
          src, first, defpath, self_data, force,
          prog, nolog, apptainer, sifpath, sandboxpath, self_control, control_file,
          asm, sw_exp_dir, wrapper_dir, log, status

\* The files other than the def file and the Builder fields other than
\* force and data, which only the sif and sandbox actions use.
buildvars == <<prog, nolog, apptainer, sifpath, sandboxpath, self_control, control_file,
               asm, sw_exp_dir, wrapper_dir, log, status>>

vars == <<f, bag, packages, index, pc, err, errinfo, software, requests, closed,
          src, first, defpath, self_data, force, buildvars>>

(***************************************************************************)
(* Bounds of the model.                                                    *)
(***************************************************************************)
MaxRecords == 3
MaxRequests == 2

(***************************************************************************)
(* Characters and strings.                                                 *)
(***************************************************************************)
Range(s) == {s[i] : i \in 1..Len(s)}

\* The characters of the model.
Digits == <<"0", "1", "2", "3", "4", "5", "6", "7", "8", "9">>

UpperCase == <<"A", "B", "C", "D", "E", "F", "G", "H", "I", "J", "K", "L", "M", "N", "O", "P", "Q", "R", "S", "T", "U", "V", "W", "X", "Y", "Z">>

LowerCase == <<"a", "b", "c", "d", "e", "f", "g", "h", "i", "j", "k", "l", "m", "n", "o", "p", "q", "r", "s", "t", "u", "v", "w", "x", "y", "z">>

Punctuation == {"\n", " ", "+", ",", "-", ".", ":", "=", "~"}

Chars == Range(Digits) \cup Range(UpperCase) \cup Range(LowerCase) \cup Punctuation

\* Python's ord(): the code point of a character.
OrdTable ==
  [c \in Chars |->
     IF c \in Range(Digits) THEN 47 + (CHOOSE i \in 1..10 : Digits[i] = c)
     ELSE IF c \in Range(UpperCase) THEN 64 + (CHOOSE i \in 1..26 : UpperCase[i] = c)
     ELSE IF c \in Range(LowerCase) THEN 96 + (CHOOSE i \in 1..26 : LowerCase[i] = c)
     ELSE CASE c = "\n" -> 10 [] c = " " -> 32 [] c = "+" -> 43 [] c = "," -> 44
            [] c = "-" -> 45 [] c = "." -> 46 [] c = ":" -> 58 [] c = "=" -> 61
            [] c = "~" -> 126]

ord(c) == OrdTable[c]

\* \d and [A-Za-z]
isdigit(c) == c \in Range(Digits)

isalpha(c) == c \in Range(UpperCase) \cup Range(LowerCase)

\* str.upper(), character by character.
UpperTable == [c \in Chars |-> IF c \in Range(LowerCase) THEN UpperCase[OrdTable[c] - 96] ELSE c]

upper(s) == [i \in 1..Len(s) |-> UpperTable[s[i]]]

RECURSIVE lstrip(_, _)
lstrip(s, chars) ==
  IF s # <<>> /\ Head(s) \in chars THEN lstrip(Tail(s), chars) ELSE s

RECURSIVE rstrip(_, _)
rstrip(s, chars) ==
  IF s # <<>> /\ s[Len(s)] \in chars THEN rstrip(SubSeq(s, 1, Len(s) - 1), chars) ELSE s

\* str.strip(chars)
strip(s, chars) == rstrip(lstrip(s, chars), chars)

\* needle in s  (Python substring test)
contains(s, needle) ==
  \E i \in 1..(Len(s) - Len(needle) + 1) : SubSeq(s, i, i + Len(needle) - 1) = needle

\* Python's str < str: code-point lexicographic order.
RECURSIVE str_less(_, _)
str_less(a, b) ==
  IF b = <<>> THEN FALSE
  ELSE IF a = <<>> THEN TRUE
  ELSE IF Head(a) # Head(b) THEN OrdTable[Head(a)] < OrdTable[Head(b)]
  ELSE str_less(Tail(a), Tail(b))

\* Python's sorted() of a list of strings.
RECURSIVE insert_sorted(_, _)
insert_sorted(x, srt) ==
  IF srt = <<>> THEN <<x>>
  ELSE IF str_less(x, Head(srt)) THEN <<x>> \o srt
  ELSE <<Head(srt)>> \o insert_sorted(x, Tail(srt))

RECURSIVE sorted(_)
sorted(items) == IF items = <<>> THEN <<>> ELSE insert_sorted(Head(items), sorted(Tail(items)))

(***************************************************************************)
(* Field names and literals of the source.                                 *)
(***************************************************************************)
K_Package == <<"P", "a", "c", "k", "a", "g", "e">>
K_Version == <<"V", "e", "r", "s", "i", "o", "n">>
K_Software == <<"N", "m", "r", "b", "o", "x", "-", "S", "o", "f", "t", "w", "a", "r", "e">>
K_SoftwareVersion == <<"N", "m", "r", "b", "o", "x", "-", "V", "e", "r", "s", "i", "o", "n">>
S_UTILITY == <<"U", "T", "I", "L", "I", "T", "Y">>
S_data == <<"d", "a", "t", "a">>

\* Package._FIELDS
FIELDS == {K_Version, K_Software, K_SoftwareVersion}

(***************************************************************************)
(* debian_support.version_compare (python-debian), as statusparser.py      *)
(* calls it: epoch, upstream version and Debian revision are compared in   *)
(* turn; digit runs compare as integers, other runs character by character *)
(* with the tilde lowest, then end of string, then letters, then the rest. *)
(***************************************************************************)
FirstIndex(s, c) == IF c \in Range(s) THEN CHOOSE i \in 1..Len(s) : s[i] = c /\ \A j \in 1..(i - 1) : s[j] # c ELSE 0

LastIndex(s, c) == IF c \in Range(s) THEN CHOOSE i \in 1..Len(s) : s[i] = c /\ \A j \in (i + 1)..Len(s) : s[j] # c ELSE 0

AllDigits(s) == s # <<>> /\ \A i \in 1..Len(s) : isdigit(s[i])

\* int(s) of a string of digits
RECURSIVE to_int(_)
to_int(s) == IF s = <<>> THEN 0 ELSE 10 * to_int(SubSeq(s, 1, Len(s) - 1)) + (OrdTable[s[Len(s)]] - 48)

\* The regular expression of python-debian's Version: an optional all-digit
\* epoch before the first colon (c is the place of that colon, 0 for none) ...
epoch_colon(v, c) == IF c > 1 /\ c < Len(v) /\ AllDigits(SubSeq(v, 1, c - 1)) THEN c ELSE 0

\* ... and an optional revision after the last hyphen, which holds no colon
\* (d is the place of that hyphen, 0 for none).
revision_hyphen(rest, d) ==
  IF d > 1 /\ d < Len(rest) /\ ":" \notin Range(SubSeq(rest, d + 1, Len(rest))) THEN d ELSE 0

split_revision(epoch, rest, d) ==
  [epoch |-> epoch,
   upstream_version |-> IF d = 0 THEN rest ELSE SubSeq(rest, 1, d - 1),
   debian_revision |-> IF d = 0 THEN <<"0">> ELSE SubSeq(rest, d + 1, Len(rest))]

split_rest(epoch, rest) == split_revision(epoch, rest, revision_hyphen(rest, LastIndex(rest, "-")))

split_epoch(v, c) == split_rest(IF c = 0 THEN 0 ELSE to_int(SubSeq(v, 1, c - 1)), SubSeq(v, c + 1, Len(v)))

\* Version(v): epoch (0 when absent), upstream_version, debian_revision ("0" when absent)
version_parts(v) == split_epoch(v, epoch_colon(v, FirstIndex(v, ":")))

\* NativeVersion._order
OrderTable ==
  [x \in Chars |->
     IF x = "~" THEN -1
     ELSE IF isdigit(x) THEN (OrdTable[x] - 48) + 1
     ELSE IF isalpha(x) THEN OrdTable[x]
     ELSE OrdTable[x] + 256]

order(x) == OrderTable[x]

cmp_int(a, b) == IF a < b THEN -1 ELSE IF a > b THEN 1 ELSE 0

\* NativeVersion._version_cmp_string: character orders, the shorter padded with 0.
RECURSIVE version_cmp_string(_, _)
version_cmp_string(va, vb) ==
  IF va = <<>> /\ vb = <<>> THEN 0
  ELSE LET a == IF va # <<>> THEN order(Head(va)) ELSE 0
           b == IF vb # <<>> THEN order(Head(vb)) ELSE 0
       IN IF a # b THEN cmp_int(a, b)
          ELSE version_cmp_string(IF va # <<>> THEN Tail(va) ELSE va,
                                  IF vb # <<>> THEN Tail(vb) ELSE vb)

\* re.findall(r"\d+|\D+", s): the maximal runs of digits and of non-digits.
RunLen(s) ==
  CHOOSE n \in 1..Len(s) :
    /\ \A i \in 1..n : isdigit(s[i]) = isdigit(s[1])
    /\ (n < Len(s) => isdigit(s[n + 1]) # isdigit(s[1]))

RECURSIVE runs(_)
RECURSIVE cut_run(_, _)
cut_run(s, n) == <<SubSeq(s, 1, n)>> \o runs(SubSeq(s, n + 1, Len(s)))

runs(s) == IF s = <<>> THEN <<>> ELSE cut_run(s, RunLen(s))

\* NativeVersion._version_cmp_part, one step: two digit runs compare as
\* integers, any other pair as strings.
cmp_run(a, b) ==
  IF AllDigits(a) /\ AllDigits(b) THEN cmp_int(to_int(a), to_int(b)) ELSE version_cmp_string(a, b)

\* la.pop(0) with the default "0" of an exhausted list
pop_or_zero(l) == IF l # <<>> THEN Head(l) ELSE <<"0">>

popped(l) == IF l # <<>> THEN Tail(l) ELSE l

\* NativeVersion._version_cmp_part over the two lists of runs.
RECURSIVE version_cmp_runs(_, _)
RECURSIVE version_cmp_next(_, _, _)
version_cmp_next(res, la, lb) ==
  IF res # 0 THEN res ELSE version_cmp_runs(popped(la), popped(lb))

version_cmp_runs(la, lb) ==
  IF la = <<>> /\ lb = <<>> THEN 0
  ELSE version_cmp_next(cmp_run(pop_or_zero(la), pop_or_zero(lb)), la, lb)

version_cmp_part(va, vb) == version_cmp_runs(runs(va), runs(vb))

\* The first of the results of the three parts that is not 0.
first_nonzero(x, y, z) == IF x # 0 THEN x ELSE IF y # 0 THEN y ELSE z

compare_parts(pa, pb) ==
  first_nonzero(cmp_int(pa.epoch, pb.epoch),
                version_cmp_part(pa.upstream_version, pb.upstream_version),
                version_cmp_part(pa.debian_revision, pb.debian_revision))

\* version_compare(a, b): -1, 0 or 1
version_compare(a, b) == compare_parts(version_parts(a), version_parts(b))

(***************************************************************************)
(* Python values: None, dictionaries and exceptions.                       *)
(***************************************************************************)
\* None, where a string is expected.
None == <<"None">>

\* {} : a dictionary whose keys are looked up, never iterated (the bag).
EmptyDict == [k \in {} |-> <<>>]

\* d[k] = v
dict_set(d, k, v) == [x \in (DOMAIN d) \cup {k} |-> IF x = k THEN v ELSE d[x]]

\* An insertion-ordered dictionary that the code iterates: a sequence of
\* [key, val] entries in the order the keys were first inserted.
od_keys(d) == [i \in 1..Len(d) |-> d[i].key]

od_values(d) == [i \in 1..Len(d) |-> d[i].val]

od_has(d, k) == \E i \in 1..Len(d) : d[i].key = k

od_get(d, k) == d[CHOOSE i \in 1..Len(d) : d[i].key = k].val

\* d[k] = v : an existing key keeps its place, a new key goes last.
od_set(d, k, v) ==
  IF od_has(d, k)
    THEN [i \in 1..Len(d) |-> IF d[i].key = k THEN [key |-> k, val |-> v] ELSE d[i]]
    ELSE Append(d, [key |-> k, val |-> v])

\* d[k].append(v) on a collections.defaultdict(list)
od_append(d, k, v) ==
  od_set(d, k, IF od_has(d, k) THEN Append(od_get(d, k), v) ELSE <<v>>)

\* The result of a call that may raise.
Ok(v) == [ok |-> TRUE, val |-> v, exc |-> "none"]

Raise(e) == [ok |-> FALSE, val |-> <<>>, exc |-> e]

(***************************************************************************)
(* __init__.py: class Package                                              *)
(***************************************************************************)
\* Package.__init__ keeping Nmrbox-Software as it is written.
Package_init_as_written(data) ==
  IF {K_Package, K_Version, K_Software, K_SoftwareVersion} \subseteq DOMAIN data
    THEN Ok([package |-> data[K_Package],
             pkg_vers |-> data[K_Version],
             software |-> data[K_Software],
             software_vers |-> data[K_SoftwareVersion]])
    ELSE Raise("KeyError")

\* Package.__init__: data['Package'] etc. raise KeyError for a missing key.
Package_init(data) ==
  IF {K_Package, K_Version, K_Software, K_SoftwareVersion} \subseteq DOMAIN data
    THEN Ok([package |-> data[K_Package],
             pkg_vers |-> data[K_Version],
             software |-> upper(data[K_Software]),
             software_vers |-> data[K_SoftwareVersion]])
    ELSE Raise("KeyError")

\* Package.parse testing two of the three fields only.
Package_parse_two_fields(data) ==
  IF K_Version \in DOMAIN data /\ K_Software \in DOMAIN data
    THEN LET made == Package_init(data)
         IN IF made.ok THEN Ok(<<made.val>>) ELSE made
    ELSE Ok(<<>>)

\* Package.parse: a Package if all of _FIELDS are present, else None.
\* The value returned is <<p>> for a Package p and <<>> for None.
Package_parse(data) ==
  IF \A fld \in FIELDS : fld \in DOMAIN data
    THEN LET made == Package_init(data)
         IN IF made.ok THEN Ok(<<made.val>>) ELSE made
    ELSE Ok(<<>>)

\* Package.isdata
isdata(p) == contains(p.package, S_data)

\* Package.package_spec
package_spec(p) == p.package \o <<"=">> \o p.pkg_vers

(***************************************************************************)
(* statusparser.py                                                         *)
(***************************************************************************)
\* _splitter: key and stripped value of a line holding ':', else None, None.
splitter(line) ==
  IF ":" \in Range(line)
    THEN LET c == FirstIndex(line, ":")
         IN [key |-> SubSeq(line, 1, c - 1),
             value |-> strip(strip(SubSeq(line, c + 1, Len(line)), {"\n"}), {" ", "\n"})]
    ELSE [key |-> None, value |-> None]

\* for d in data: pkg_latest[d[attr]].append(d)
RECURSIVE group_by(_, _, _)
group_by(acc, data, attr) ==
  IF data = <<>> THEN acc
  ELSE group_by(od_append(acc, Head(data)[attr], Head(data)), Tail(data), attr)

\* _maxpackage, lines 35-40: the loop over versions[1:]; cresult is
\* version_compare(p.pkg_vers, latest.pkg_vers) of the p at the head of rest.
RECURSIVE latest_loop(_, _)
RECURSIVE latest_next(_, _, _)
\* The loop of _maxpackage keeping the lower version.
latest_next_lowest(latest, rest, cresult) ==
  IF cresult = 0 THEN Raise("AssertionError")
  ELSE latest_loop(IF cresult = -1 THEN Head(rest) ELSE latest, Tail(rest))

latest_next(latest, rest, cresult) ==
  IF cresult = 0 THEN Raise("AssertionError")
  ELSE latest_loop(IF cresult = 1 THEN Head(rest) ELSE latest, Tail(rest))

latest_loop(latest, rest) ==
  IF rest = <<>> THEN Ok(latest)
  ELSE latest_next(latest, rest, version_compare(Head(rest).pkg_vers, latest.pkg_vers))

\* _maxpackage, lines 30-41: the loop over pkg_latest.items(); latest is the
\* outcome of lines 35-40 for the versions at the head of items.
RECURSIVE maxpackage_loop(_, _)
RECURSIVE maxpackage_next(_, _, _)
maxpackage_next(result, items, latest) ==
  IF ~latest.ok THEN latest
  ELSE maxpackage_loop(Append(result, latest.val), Tail(items))

maxpackage_loop(result, items) ==
  IF items = <<>> THEN Ok(result)
  ELSE IF Len(Head(items).val) = 1
         THEN maxpackage_loop(Append(result, Head(items).val[1]), Tail(items))
         ELSE maxpackage_next(result, items,
                              latest_loop(Head(items).val[1], Tail(Head(items).val)))

\* _maxpackage
maxpackage(data) ==
  IF Len(data) = 0 THEN Ok(data)
  ELSE IF Len(data) = 1 THEN Ok(data)
  ELSE maxpackage_loop(<<>>, group_by(<<>>, data, "package"))

RECURSIVE maxpackage_vers(_, _)

\* Software.max_package_vers
max_package_vers(s) == maxpackage_vers(s.packages, "pkg_vers")

\* getattr(c, attribute): a field, or the property max_package_vers.
getattr(c, attribute) ==
  IF attribute = "max_package_vers" THEN max_package_vers(c) ELSE c[attribute]

\* _maxpackage_vers, lines 54-57: the loop over data[1:]; cvers is
\* getattr(c, attribute) of the c at the head of rest.
RECURSIVE highest_loop(_, _, _)
RECURSIVE highest_next(_, _, _, _)
\* The loop of _maxpackage_vers comparing the versions as plain strings.
highest_next_lexical(highest, rest, attribute, cvers) ==
  highest_loop(IF str_less(highest, cvers) THEN cvers ELSE highest,
               Tail(rest), attribute)

highest_next(highest, rest, attribute, cvers) ==
  highest_loop(IF version_compare(cvers, highest) = 1 THEN cvers ELSE highest,
               Tail(rest), attribute)

highest_loop(highest, rest, attribute) ==
  IF rest = <<>> THEN highest
  ELSE highest_next(highest, rest, attribute, getattr(Head(rest), attribute))

\* _maxpackage_vers (called with data non-empty)
maxpackage_vers(data, attribute) ==
  IF Len(data) = 1 THEN getattr(data[1], attribute)
  ELSE highest_loop(getattr(data[1], attribute), Tail(data), attribute)

\* Software(...) without __post_init__.
Software_init_unpromoted(sw, swvers, pkgs, data_pkgs) ==
  [software |-> sw, version |-> swvers, packages |-> pkgs, data_packages |-> data_pkgs]

\* Software(...) with __post_init__: data packages become main packages
\* when there are no main packages.
Software_init(sw, swvers, pkgs, data_pkgs) ==
  IF Len(pkgs) = 0
    THEN [software |-> sw, version |-> swvers, packages |-> data_pkgs, data_packages |-> <<>>]
    ELSE [software |-> sw, version |-> swvers, packages |-> pkgs, data_packages |-> data_pkgs]

\* Software.__str__
Software_str(s) == s.software \o <<" ">> \o s.version

\* Software.latest_packages returning the first entry of the maximum only.
select_latest_first(data, mv) ==
  SubSeq(SelectSeq(data, LAMBDA s : max_package_vers(s) = mv), 1, 1)

\* Software.latest_packages; mv is _maxpackage_vers(data, 'max_package_vers').
select_latest(data, mv) == SelectSeq(data, LAMBDA s : max_package_vers(s) = mv)

latest_packages(data) == select_latest(data, maxpackage_vers(data, "max_package_vers"))

\* parse_nmrbox_list, line 125: Software(sw, swvers, _maxpackage(code), _maxpackage(data))
make_software(sw, swvers, mcode, mdata) ==
  IF ~mcode.ok THEN mcode
  ELSE IF ~mdata.ok THEN mdata
  ELSE Ok(Software_init(sw, swvers, mcode.val, mdata.val))

\* parse_nmrbox_list, lines 118-125: one Software from the packages of a
\* (family, version).
build_software(sw, swvers, pkglist) ==
  make_software(sw, swvers,
                maxpackage(SelectSeq(pkglist, LAMBDA p : ~isdata(p))),
                maxpackage(SelectSeq(pkglist, LAMBDA p : isdata(p))))

\* index[sw] = {swvers: software}: the versions stored before are lost.
index_set_one_version(idx, sw, swvers, sware) ==
  od_set(idx, sw, od_set(<<>>, swvers, sware))

\* index[sw][swvers] = software, on a collections.defaultdict(lambda: {})
index_set(idx, sw, swvers, sware) ==
  od_set(idx, sw, od_set(IF od_has(idx, sw) THEN od_get(idx, sw) ELSE <<>>, swvers, sware))

\* parse_nmrbox_list, lines 117-126: the loop over software_versions.items();
\* made is the outcome of line 125 for the item at the head of items.
RECURSIVE versions_loop(_, _, _)
RECURSIVE versions_next(_, _, _, _)
versions_next(idx, sw, items, made) ==
  IF ~made.ok THEN made
  ELSE versions_loop(index_set(idx, sw, Head(items).key, made.val), sw, Tail(items))

versions_loop(idx, sw, items) ==
  IF items = <<>> THEN Ok(idx)
  ELSE versions_next(idx, sw, items, build_software(sw, Head(items).key, Head(items).val))

\* parse_nmrbox_list, lines 108-127: the loop over packages.items(); done is
\* the outcome of lines 112-126 for the family at the head of items.
RECURSIVE build_index(_, _)
RECURSIVE build_index_next(_, _)
build_index_next(items, done) ==
  IF ~done.ok THEN done ELSE build_index(done.val, Tail(items))

\* The loop over packages.items() without the test for UTILITY.
build_index_with_utility(idx, items) ==
  IF items = <<>> THEN Ok(idx)
  ELSE build_index_next(items,
         versions_loop(idx, Head(items).key, group_by(<<>>, Head(items).val, "software_vers")))

build_index(idx, items) ==
  IF items = <<>> THEN Ok(idx)
  ELSE IF Head(items).key = S_UTILITY THEN build_index(idx, Tail(items))
  ELSE build_index_next(items,
         versions_loop(idx, Head(items).key, group_by(<<>>, Head(items).val, "software_vers")))

(***************************************************************************)
(* The index streams and the requests the model explores.                  *)
(***************************************************************************)
Line(key, value) == key \o <<":", " ">> \o value \o <<"\n">>

\* A stanza with every field of interest.
Stanza(name, vers, sw, swvers) ==
  <<Line(K_Package, name), Line(K_Version, vers),
    Line(K_Software, sw), Line(K_SoftwareVersion, swvers)>>

N_a == <<"a">>
N_b == <<"b">>
N_adata == <<"a", "d", "a", "t", "a">>
N_z == <<"z">>
V_9 == <<"9">>
V_10 == <<"1", "0">>
V_0c9 == <<"0", ":", "9">>
F_x == <<"x">>
F_X == <<"X">>
F_y == <<"y">>
F_Utility == <<"U", "t", "i", "l", "i", "t", "y">>
F_nosuch == <<"n", "o", "s", "u", "c", "h">>
T_1 == <<"1">>
T_2 == <<"2">>
T_3 == <<"3">>
K_Description == <<"D", "e", "s", "c", "r", "i", "p", "t", "i", "o", "n">>
L_blank == <<"\n">>
L_nocolon == <<" ", "c", "o", "n", "t", "i", "n", "u", "e", "d", "\n">>

\* Same-named and differently named packages of one (family, version).
CollapseStanzas ==
  {Stanza(n, v, F_x, T_1) : n \in {N_a, N_b, N_adata}, v \in {V_9, V_10, V_0c9}}

\* One package in several families and versions.
GroupStanzas ==
  {Stanza(N_a, V_9, sw, t) : sw \in {F_x, F_X, F_y, F_Utility}, t \in {T_1, T_2}}

\* Partial and noisy stanzas.
PartialStanzas ==
  { Stanza(N_a, V_9, F_x, T_1),
    Stanza(N_b, V_9, F_x, T_1),
    <<Line(K_Package, N_a), Line(K_Software, F_x), Line(K_SoftwareVersion, T_1)>>,
    <<Line(K_Package, N_a), Line(K_Version, V_9), Line(K_SoftwareVersion, T_1)>>,
    <<Line(K_Package, N_a), Line(K_Version, V_9), Line(K_Software, F_x)>>,
    <<Line(K_Package, N_a)>>,
    <<Line(K_Package, N_a), Line(K_Version, V_9), L_blank, L_nocolon,
      Line(K_Software, F_x), Line(K_Description, N_z), Line(K_SoftwareVersion, T_1)>> }

\* Lines before the first Package line.
Preambles ==
  { <<>>,
    <<Line(K_Version, V_10)>>,
    <<Line(K_Version, V_10), Line(K_Software, F_x), Line(K_SoftwareVersion, T_2)>> }

\* What follows the last stanza: nothing, or one more Package line.
Tails == {<<>>, <<Line(K_Package, N_z)>>}

RECURSIVE Flatten(_)
Flatten(ss) == IF ss = <<>> THEN <<>> ELSE Head(ss) \o Flatten(Tail(ss))

SeqsUpTo(S, n) == UNION {[1..k -> S] : k \in 0..n}

StreamsOf(S) == {Flatten(ss) : ss \in SeqsUpTo(S, MaxRecords)}

ParseStreams ==
  {body \o t : body \in StreamsOf(CollapseStanzas) \cup StreamsOf(GroupStanzas), t \in Tails}
  \cup {pre \o body \o t : pre \in Preambles, body \in StreamsOf(PartialStanzas), t \in Tails}

\* The stanzas of the streams that requests are resolved against.
ResolveStanzas ==
  { Stanza(N_a, V_9, F_x, T_1), Stanza(N_a, V_10, F_x, T_1),
    Stanza(N_a, V_10, F_x, T_2), Stanza(N_a, V_0c9, F_x, T_2),
    Stanza(N_a, V_9, F_x, T_3), Stanza(N_adata, V_9, F_x, T_1),
    Stanza(N_b, V_9, F_X, T_2), Stanza(N_a, V_9, F_Utility, T_1),
    Stanza(N_a, V_10, F_y, T_1) }

ResolveStreams == {body \o <<Line(K_Package, N_z)>> : body \in StreamsOf(ResolveStanzas)}

\* Keys of the software: section of the configuration.
ReqFamilies == {F_x, F_X, F_Utility, F_nosuch}

\* Values of the software: section as YAML loads them: None, a string, an integer.
\* (field s holds the string, field n the integer).
ReqVersions ==
  { [type |-> "None", s |-> <<>>, n |-> 0],
    [type |-> "str", s |-> T_2, n |-> 0],
    [type |-> "int", s |-> <<>>, n |-> 9] }

\* str(vers) of a YAML string or a non-negative integer
RECURSIVE int_str(_)
int_str(n) == IF n < 10 THEN <<Digits[n + 1]>> ELSE int_str(n \div 10) \o <<Digits[(n % 10) + 1]>>

str(vers) == IF vers.type = "int" THEN int_str(vers.n) ELSE vers.s

\* ','.join(items)
RECURSIVE join(_, _)
join(sep, items) ==
  IF items = <<>> THEN <<>>
  ELSE IF Len(items) = 1 THEN Head(items)
  ELSE Head(items) \o sep \o join(sep, Tail(items))

(***************************************************************************)
(* The state machine.                                                      *)
(*   f         the lines of the index file not yet read                    *)
(*   bag       the fields of the record being read                         *)
(*   packages  family -> list of Package, as parsed                        *)
(*   index     family -> version -> Software (self.inventory)              *)
(*   pc        "reading", "indexed" (the loop of _parse), "raised"         *)
(*   err       the exception raised, errinfo what its message carries      *)
(*   software  self.software                                               *)
(*   requests  the entries of the software: section handled so far         *)
(*   closed    history: the bags of the records that a later Package line  *)
(*             has closed, in order                                        *)
(*   src       the lines of the index file (the file that f iterates over) *)
(*   first     history: what an earlier call of parse_nmrbox_list on src   *)
(*             returned or raised, <<>> before any call has ended          *)
(*   defpath   the def file: whether it exists and what was written to it  *)
(*   self_data self.data, the data: entry of the configuration             *)
(*   force     self.force                                                  *)
(*   prog      which Builder the session runs: main.py's or assembler.py's *)
(*   nolog     self.nolog                                                  *)
(*   apptainer whether /usr/bin/apptainer is a file                        *)
(*   sifpath   what is at self.sifpath: nothing, a file or a directory     *)
(*   sandboxpath  what is at "{self.sifpath}.sandbox" (main.py only)       *)
(*   self_control  self._control: <<>> for None, else the path             *)
(*   control_file  the lines of the control file                           *)
(*   asm       the configuration of assembler.py's Builder: software,      *)
(*             software_map, apps, build_wrappers, software_explorer       *)
(*   sw_exp_dir, wrapper_dir  the names of the files in the directories    *)
(*   log       history: the file and process operations of the latest      *)
(*             action, in order                                            *)
(*   status    how the latest action ended                                 *)
(***************************************************************************)
NoInfo == [kind |-> "none", name |-> <<>>, vstr |-> <<>>, valid |-> <<>>]

InitCommon ==
  /\ bag = EmptyDict
  /\ packages = <<>>
  /\ index = <<>>
  /\ pc = "reading"
  /\ err = "none"
  /\ errinfo = NoInfo
  /\ software = <<>>
  /\ requests = <<>>
  /\ closed = <<>>
  /\ src = f
  /\ first = <<>>

\* The def file: absent, left by an earlier run (a file or a directory), or
\* written by generate with the packages line, the software comments and the
\* named packages comments.
NoFile == [exists |-> FALSE, is_dir |-> FALSE, by |-> "nobody", packages |-> <<>>, software |-> <<>>, named |-> <<>>]

OldFile == [exists |-> TRUE, is_dir |-> FALSE, by |-> "earlier run", packages |-> <<>>, software |-> <<>>, named |-> <<>>]

\* The packages: section of the configuration: package name -> version or None.
PkgSections ==
  { <<>>,
    <<[key |-> N_z, val |-> None], [key |-> N_b, val |-> V_9]>> }

\* A directory where the def file should be.
OldDir == [exists |-> TRUE, is_dir |-> TRUE, by |-> "earlier run", packages |-> <<>>, software |-> <<>>, named |-> <<>>]

\* What is at self.sifpath or at the sandbox path.
NoPath == [kind |-> "absent", by |-> "nobody"]

OldSif == [kind |-> "file", by |-> "earlier run"]

OldSandbox == [kind |-> "dir", by |-> "earlier run"]

\* The lines of a control file.
K_Include == <<"X", "B", "-", "N", "m", "r", "b", "o", "x", "-", "I", "n", "c", "l", "u", "d", "e">>

C_Package == <<"P", "a", "c", "k", "a", "g", "e", ":", " ", "z", "\n">>

C_Include_X == <<"X", "B", "-", "N", "m", "r", "b", "o", "x", "-", "I", "n", "c", "l", "u", "d", "e", "0", ":", " ", "X", "\n">>

C_Include_colons == <<"X", "B", "-", "N", "m", "r", "b", "o", "x", "-", "I", "n", "c", "l", "u", "d", "e", "0", ":", " ", "a", ":", "b", "\n">>

ControlFiles == {<<C_Package>>, <<C_Package, C_Include_X>>, <<C_Include_colons>>}

\* assembler.py, Builder.__init__ and Builder.configure: no yaml was read.
NoAsm ==
  [software |-> <<>>, software_map |-> <<>>, apps |-> <<>>, synced |-> TRUE,
   build_wrappers |-> FALSE, software_explorer |-> TRUE]

\* How a session ends or stands: no action yet, returned, raised, exited.
Idle == [kind |-> "idle", exc |-> "none", msg |-> "none", code |-> 0]

InitNoBuild ==
  /\ prog = "main"
  /\ nolog = FALSE
  /\ apptainer = TRUE
  /\ sifpath = NoPath
  /\ sandboxpath = NoPath
  /\ self_control = <<>>
  /\ control_file = <<>>
  /\ asm = NoAsm
  /\ sw_exp_dir = {}
  /\ wrapper_dir = {}
  /\ log = <<>>
  /\ status = Idle

(***************************************************************************)
(* The generate, sif and sandbox actions of the two Builders.  A handler   *)
(* is a function of the world w: the files it may change, self._control,   *)
(* the operations it has done so far and how it stands.                    *)
(***************************************************************************)
Running == [kind |-> "running", exc |-> "none", msg |-> "none", code |-> 0]

Returned == [kind |-> "returned", exc |-> "none", msg |-> "none", code |-> 0]

World ==
  [defpath |-> defpath, sifpath |-> sifpath, sandboxpath |-> sandboxpath,
   self_control |-> self_control, control_file |-> control_file,
   sw_exp_dir |-> sw_exp_dir, wrapper_dir |-> wrapper_dir,
   log |-> <<>>, status |-> Running]

running(w) == w.status.kind = "running"

\* raise exc(msg)
raise(w, exc, msg) == [w EXCEPT !.status = [kind |-> "raised", exc |-> exc, msg |-> msg, code |-> 1]]

\* sys.exit(code)
sys_exit(w, code) == [w EXCEPT !.status = [kind |-> "exited", exc |-> "SystemExit", msg |-> "none", code |-> code]]

note(w, op) == [w EXCEPT !.log = Append(@, op)]

\* Path.is_file() and Path.exists() of the def file.
is_file(d) == d.exists /\ ~d.is_dir

exists(d) == d.exists

\* str.startswith(prefix)
startswith(s, prefix) == Len(s) >= Len(prefix) /\ SubSeq(s, 1, Len(prefix)) = prefix

\* str.split(sep) for a one-character separator.
RECURSIVE split(_, _, _, _)
split(parts, cur, s, sep) ==
  IF s = <<>> THEN Append(parts, cur)
  ELSE IF Head(s) = sep THEN split(Append(parts, cur), <<>>, Tail(s), sep)
  ELSE split(parts, Append(cur, Head(s)), Tail(s), sep)

Whitespace == {" ", "\n"}

\* The control path given with --control.
P_control == <<"c", "o", "n", "t", "r", "o", "l">>

\* assembler.py, the control setter, lines 67-72; the file at the path is
\* there for the whole session (main() has raised FileNotFoundError before
\* any action otherwise).
control_setter(w, value) ==
  IF value # <<>> THEN [w EXCEPT !.self_control = value] ELSE w

\* Builder._update_control, lines 236-248: the loop over the lines read.
RECURSIVE read_control(_, _, _)
read_control(current, output, content) ==
  IF content = <<>> THEN [ok |-> TRUE, current |-> current, output |-> output]
  ELSE IF startswith(Head(content), K_Include)
    THEN IF Len(split(<<>>, <<>>, Head(content), ":")) # 2
           THEN [ok |-> FALSE, current |-> current, output |-> output]
           ELSE read_control(current \cup {upper(strip(split(<<>>, <<>>, Head(content), ":")[2], Whitespace))},
                             output, Tail(content))
    ELSE read_control(current, Append(output, rstrip(Head(content), Whitespace)), Tail(content))

\* Builder._update_control, lines 253-260: the lines written.
control_lines(output, ordered) ==
  [i \in 1..Len(output) |-> output[i] \o <<"\n">>]
    \o [i \in 1..Len(ordered) |-> K_Include \o int_str(i - 1) \o <<":", " ">> \o ordered[i] \o <<"\n">>]

\* Builder._update_control, lines 249-262, once the file has been read.
rewrite_control(w, read) ==
  IF ~read.ok THEN raise(w, "ValueError", "did not split into two")
  ELSE IF Range(asm.software) = read.current THEN w
  ELSE control_setter(note([w EXCEPT !.control_file = control_lines(read.output, sorted(asm.software))],
                           "write control"),
                      <<>>)

\* Builder._update_control, lines 234-262.
update_control(w) ==
  IF w.self_control # <<>> /\ asm.software # <<>>
    THEN rewrite_control(note(w, "read control"), read_control({}, <<>>, w.control_file))
    ELSE w

\* Builder.gen_swe, lines 304-310: the loop over self.software_map.
RECURSIVE gen_swe_loop(_, _)
gen_swe_loop(w, items) ==
  IF items = <<>> THEN w
  ELSE IF ~od_has(asm.apps, Head(items).val)
    THEN raise(w, "ValueError", "Invalid software executable")
    ELSE gen_swe_loop(note([w EXCEPT !.sw_exp_dir = @ \cup {upper(Head(items).key)}], "write swe"),
                      Tail(items))

\* Builder.gen_swe, lines 300-310.
gen_swe(w) == IF asm.software_explorer THEN gen_swe_loop(w, asm.software_map) ELSE w

\* Builder.wrappers, lines 288-297: the loop over self.apps.
RECURSIVE wrappers_loop(_, _)
wrappers_loop(w, items) ==
  IF items = <<>> THEN w
  ELSE IF "run" \in Head(items).val
    THEN IF Head(items).key \in w.wrapper_dir /\ ~force
           THEN wrappers_loop(w, Tail(items))
           ELSE wrappers_loop(note([w EXCEPT !.wrapper_dir = @ \cup {Head(items).key}], "write wrapper"),
                              Tail(items))
    ELSE wrappers_loop(w, Tail(items))

\* Builder.wrappers, lines 285-297.
wrappers(w) == wrappers_loop(w, asm.apps)

InitNoSession ==
  /\ defpath = NoFile
  /\ self_data = FALSE
  /\ force = FALSE
  /\ InitNoBuild

Init == f \in ResolveStreams /\ InitCommon /\ InitNoSession

InitParse == f \in ParseStreams /\ InitCommon /\ InitNoSession

\* parse_nmrbox_list, lines 102-107, with bag[key] = value in place of
\* bag = {key: value} at a Package line.
handle_key_leaking(kv, p) ==
  IF kv.key = K_Package /\ ~p.ok
    THEN /\ pc' = "raised"
         /\ err' = p.exc
         /\ UNCHANGED <<bag, packages>>
    ELSE /\ packages' = IF kv.key = K_Package /\ p.val # <<>>
                          THEN od_append(packages, p.val[1].software, p.val[1])
                          ELSE packages
         /\ bag' = dict_set(bag, kv.key, kv.value)
         /\ UNCHANGED <<pc, err>>

\* parse_nmrbox_list, lines 102-107: a line with a key, kv; p is
\* Package.parse(bag) when the key is Package.
handle_key(kv, p) ==
  IF kv.key = K_Package
    THEN IF ~p.ok
           THEN /\ pc' = "raised"
                /\ err' = p.exc
                /\ UNCHANGED <<bag, packages>>
           ELSE /\ packages' = IF p.val # <<>>
                                 THEN od_append(packages, p.val[1].software, p.val[1])
                                 ELSE packages
                /\ bag' = [k \in {kv.key} |-> kv.value]
                /\ UNCHANGED <<pc, err>>
    ELSE /\ bag' = dict_set(bag, kv.key, kv.value)
         /\ UNCHANGED <<packages, pc, err>>

\* parse_nmrbox_list, lines 100-107: the line split into key and value.
handle_line(kv) ==
  IF kv.key # None
    THEN handle_key(kv, Package_parse(bag))
    ELSE UNCHANGED <<bag, packages, pc, err>>

\* parse_nmrbox_list, lines 99-107: one iteration of "for line in f".
ReadLine ==
  /\ pc = "reading"
  /\ f # <<>>
  /\ f' = Tail(f)
  /\ handle_line(splitter(Head(f)))
  /\ closed' = IF K_Package \in DOMAIN bag /\ splitter(Head(f)).key = K_Package
                 THEN Append(closed, bag) ELSE closed
  /\ UNCHANGED <<index, errinfo, software, requests, src, first, defpath, self_data, force, buildvars>>

\* parse_nmrbox_list returns the index or raises.
return_index(built) ==
  IF built.ok
    THEN /\ index' = built.val
         /\ pc' = "indexed"
         /\ UNCHANGED err
    ELSE /\ pc' = "raised"
         /\ err' = built.exc
         /\ UNCHANGED index

\* parse_nmrbox_list, lines 108-127, at the end of the stream, and
\* Builder._parse, lines 53-54.
BuildIndex ==
  /\ pc = "reading"
  /\ f = <<>>
  /\ return_index(build_index(<<>>, packages))
  /\ software' = <<>>
  /\ UNCHANGED <<f, bag, packages, errinfo, requests, closed, src, first, defpath, self_data, force, buildvars>>

\* Builder._parse, lines 70-76, listing sorted(available).
explicit_version_sorted(softwarename, available, vstr) ==
  IF ~od_has(available, vstr)
    THEN /\ pc' = "raised"
         /\ err' = "ValueError"
         /\ errinfo' = [kind |-> "version not found", name |-> softwarename,
                        vstr |-> vstr, valid |-> join(<<",">>, sorted(od_keys(available)))]
         /\ UNCHANGED software
    ELSE /\ software' = Append(software, od_get(available, vstr))
         /\ UNCHANGED <<pc, err, errinfo>>

\* Builder._parse, lines 70-76, answering with the latest of the family when
\* the version is known.
explicit_version_latest(softwarename, available, vstr) ==
  IF ~od_has(available, vstr)
    THEN /\ pc' = "raised"
         /\ err' = "ValueError"
         /\ errinfo' = [kind |-> "version not found", name |-> softwarename,
                        vstr |-> vstr, valid |-> join(<<",">>, od_keys(available))]
         /\ UNCHANGED software
    ELSE /\ software' = software \o latest_packages(od_values(available))
         /\ UNCHANGED <<pc, err, errinfo>>

\* Builder._parse, lines 70-76: a request with a version; available is
\* self.inventory[softwarename], vstr is str(vers).
explicit_version(softwarename, available, vstr) ==
  IF ~od_has(available, vstr)
    THEN /\ pc' = "raised"
         /\ err' = "ValueError"
         /\ errinfo' = [kind |-> "version not found", name |-> softwarename,
                        vstr |-> vstr, valid |-> join(<<",">>, od_keys(available))]
         /\ UNCHANGED software
    ELSE /\ software' = Append(software, od_get(available, vstr))
         /\ UNCHANGED <<pc, err, errinfo>>

\* Builder._parse, lines 60-76, going on to the next entry when the family is
\* not found.
resolve_skipping(softwarename, vers) ==
  IF ~od_has(index, softwarename)
    THEN UNCHANGED <<pc, err, errinfo, software>>
    ELSE IF vers.type = "None"
      THEN /\ software' = software \o latest_packages(od_values(od_get(index, softwarename)))
           /\ UNCHANGED <<pc, err, errinfo>>
      ELSE explicit_version(softwarename, od_get(index, softwarename), str(vers))

\* Builder._parse, lines 60-76: softwarename is s.upper().
resolve(softwarename, vers) ==
  IF ~od_has(index, softwarename)
    THEN /\ pc' = "raised"
         /\ err' = "ValueError"
         /\ errinfo' = [kind |-> "not found", name |-> softwarename,
                        vstr |-> <<>>, valid |-> <<>>]
         /\ UNCHANGED software
    ELSE IF vers.type = "None"
      THEN /\ software' = software \o latest_packages(od_values(od_get(index, softwarename)))
           /\ UNCHANGED <<pc, err, errinfo>>
      ELSE explicit_version(softwarename, od_get(index, softwarename), str(vers))

\* Builder._parse, lines 58-76, looking s up as it is written.
ParseRequest_as_written(s, vers) ==
  /\ pc = "indexed"
  /\ Len(requests) < MaxRequests
  /\ \A i \in 1..Len(requests) : requests[i].s # s
  /\ requests' = Append(requests, [s |-> s, vers |-> vers])
  /\ resolve(s, vers)
  /\ UNCHANGED <<f, bag, packages, index, closed, src, first, defpath, self_data, force, buildvars>>

\* Builder._parse, lines 58-76, taking the family out of the inventory once
\* it has been looked up.
ParseRequest_popping(s, vers) ==
  /\ pc = "indexed"
  /\ Len(requests) < MaxRequests
  /\ \A i \in 1..Len(requests) : requests[i].s # s
  /\ requests' = Append(requests, [s |-> s, vers |-> vers])
  /\ resolve(upper(s), vers)
  /\ index' = SelectSeq(index, LAMBDA e : e.key # upper(s))
  /\ UNCHANGED <<f, bag, packages, closed, src, first, defpath, self_data, force, buildvars>>

\* Builder._parse, lines 58-76: one iteration of "for s, vers in swdict.items()"
\* (the keys of swdict are distinct).
ParseRequest(s, vers) ==
  /\ pc = "indexed"
  /\ Len(requests) < MaxRequests
  /\ \A i \in 1..Len(requests) : requests[i].s # s
  /\ requests' = Append(requests, [s |-> s, vers |-> vers])
  /\ resolve(upper(s), vers)
  /\ UNCHANGED <<f, bag, packages, index, closed, src, first, defpath, self_data, force, buildvars>>

Request == \E s \in ReqFamilies, vers \in ReqVersions : ParseRequest(s, vers)

\* Builder._parse, lines 77-86: self.debpackages from the packages: section.
RECURSIVE debpackages(_, _)
debpackages(acc, pkgdict) ==
  IF pkgdict = <<>> THEN acc
  ELSE debpackages(Append(acc, IF Head(pkgdict).val = None
                                 THEN Head(pkgdict).key
                                 ELSE Head(pkgdict).key \o <<"=">> \o Head(pkgdict).val),
                   Tail(pkgdict))

\* Builder.generate, lines 95-101, adding the data packages whatever self.data.
RECURSIVE software_packages_data_always(_, _, _)
software_packages_data_always(acc, sws, withdata) ==
  IF sws = <<>> THEN acc
  ELSE software_packages_data_always(acc \o Head(sws).packages \o Head(sws).data_packages,
                                     Tail(sws), withdata)

\* Builder.generate, lines 95-101: software_packages.
RECURSIVE software_packages(_, _, _)
software_packages(acc, sws, withdata) ==
  IF sws = <<>> THEN acc
  ELSE software_packages(acc \o Head(sws).packages
                             \o (IF withdata THEN Head(sws).data_packages ELSE <<>>),
                         Tail(sws), withdata)

\* Builder.generate, lines 103-116: the def file written.
write_def(debs, swpkgs) ==
  [exists |-> TRUE, is_dir |-> FALSE, by |-> "generate",
   packages |-> join(<<" ">>, debs \o [i \in 1..Len(swpkgs) |-> package_spec(swpkgs[i])]),
   software |-> [i \in 1..Len(software) |-> <<"#", " ">> \o Software_str(software[i])],
   named |-> [i \in 1..Len(debs) |-> <<"#", " ">> \o debs[i]]]

\* Builder.generate, lines 93-116, after self._parse() has returned.
generate(debs) ==
  IF defpath.exists /\ ~force
    THEN /\ pc' = "raised"
         /\ err' = "ValueError"
         /\ errinfo' = [kind |-> "already present", name |-> <<>>, vstr |-> <<>>, valid |-> <<>>]
         /\ UNCHANGED defpath
    ELSE /\ defpath' = write_def(debs, software_packages(<<>>, software, self_data))
         /\ pc' = "generated"
         /\ UNCHANGED <<err, errinfo>>

\* Builder.generate once the loop over the software: section has ended.
Generate ==
  /\ pc = "indexed"
  /\ \E pkgdict \in PkgSections : generate(debpackages(<<>>, pkgdict))
  /\ UNCHANGED <<f, bag, packages, index, software, requests, closed, src, first, self_data, force, buildvars>>

\* What a call of parse_nmrbox_list has ended with: the index returned or the
\* exception raised, and the packages it had parsed.
Outcome == [pc |-> pc, err |-> err, index |-> index, packages |-> packages]

\* A second call of parse_nmrbox_list whose bag is the one the first call
\* left behind.
CallAgain_keeping_bag ==
  /\ pc \in {"indexed", "raised"}
  /\ first = <<>>
  /\ first' = <<Outcome>>
  /\ f' = src
  /\ packages' = <<>>
  /\ index' = <<>>
  /\ closed' = <<>>
  /\ pc' = "reading"
  /\ err' = "none"
  /\ UNCHANGED <<bag, errinfo, software, requests, src, defpath, self_data, force, buildvars>>

\* parse_nmrbox_list, lines 94-98, called once more on the same file after a
\* first call has returned or raised: packages and bag are new and empty, the
\* file is read from its first line, the index is not built yet.
CallAgain ==
  /\ pc \in {"indexed", "raised"}
  /\ first = <<>>
  /\ first' = <<Outcome>>
  /\ f' = src
  /\ bag' = EmptyDict
  /\ packages' = <<>>
  /\ index' = <<>>
  /\ closed' = <<>>
  /\ pc' = "reading"
  /\ err' = "none"
  /\ UNCHANGED <<errinfo, software, requests, src, defpath, self_data, force, buildvars>>

\* The index files that are parsed twice.
TwiceStanzas ==
  { Stanza(N_a, V_9, F_x, T_1),
    Stanza(N_b, V_10, F_X, T_2),
    <<Line(K_Package, N_a), Line(K_Version, V_9)>>,
    <<Line(K_Package, N_a), Line(K_Version, V_9), L_blank, L_nocolon,
      Line(K_Software, F_x), Line(K_Description, N_z), Line(K_SoftwareVersion, T_1)>> }

TwiceStreams == {pre \o body \o t : pre \in Preambles, body \in StreamsOf(TwiceStanzas), t \in Tails}

InitTwice == f \in TwiceStreams /\ InitCommon /\ InitNoSession

\* The index files and the settings of a session that generates a def file.
B_1 == Stanza(N_b, V_10, F_x, T_1)
A_1 == Stanza(N_a, V_9, F_x, T_1)
D_1 == Stanza(N_adata, V_9, F_x, T_1)
A_2 == Stanza(N_a, V_9, F_x, T_2)

SessionStreams ==
  {Flatten(ss) \o <<Line(K_Package, N_z)>> :
     ss \in {<<B_1, A_1, D_1>>, <<A_2, D_1>>, <<B_1, A_1, D_1, A_2>>, <<B_1>>}}

InitSession ==
  /\ f \in SessionStreams
  /\ InitCommon
  /\ defpath \in {NoFile, OldFile}
  /\ self_data \in BOOLEAN
  /\ force \in BOOLEAN
  /\ InitNoBuild


\* The exit codes of the apptainer process.
ReturnCodes == {0, 1}

\* subprocess.run(cmd): apptainer builds the target when it succeeds.
apptainer_build(w, returncode, target, kind) ==
  IF returncode = 0
    THEN note([w EXCEPT ![target] = [kind |-> kind, by |-> "apptainer"]], "run apptainer")
    ELSE note(note(w, "run apptainer"), "apptainer failed")

\* Builder._check_paths, main.py lines 138-145 and assembler.py lines 209-216.
check_sifpath(w) ==
  IF ~running(w) THEN w
  ELSE IF w.sifpath.kind # "absent"
    THEN IF ~force THEN raise(w, "ValueError", "sif already present")
         ELSE note([w EXCEPT !.sifpath = NoPath],
                   IF w.sifpath.kind = "dir" THEN "rmtree sif" ELSE "unlink sif")
    ELSE w

\* main.py, Builder.generate, lines 89-116, for a configuration whose
\* software: section has been resolved into self.software.
main_generate(w, debs) ==
  IF exists(w.defpath) /\ ~force THEN raise(w, "ValueError", "def already present")
  ELSE IF w.defpath.is_dir THEN raise(w, "IsADirectoryError", "def path")
  ELSE note([w EXCEPT !.defpath = write_def(debs, software_packages(<<>>, software, self_data))],
            "write def")

\* main.py, Builder._check_paths, lines 132-145.
main_check_paths(w, debs) ==
  IF ~apptainer THEN raise(w, "ValueError", "apptainer not found")
  ELSE check_sifpath(IF ~is_file(w.defpath) THEN main_generate(w, debs) ELSE w)

\* main.py, Builder._run, lines 147-158.
main_run(w, returncode, target, kind) ==
  IF ~running(w) THEN w
  ELSE IF nolog THEN apptainer_build(w, returncode, target, kind)
  ELSE apptainer_build(note(w, "open log"), returncode, target, kind)

\* main.py, Builder.sif, lines 160-164.
main_sif(w, debs, returncode) ==
  main_run(main_check_paths(w, debs), returncode, "sifpath", "file")

\* main.py, Builder.sandbox, lines 166-170.
main_sandbox(w, debs, returncode) ==
  main_run(main_check_paths(w, debs), returncode, "sandboxpath", "dir")

\* assembler.py, Builder.generate, lines 180-188: the def file written, and
\* the one left when _add_source_labels raises.
asm_def == [exists |-> TRUE, is_dir |-> FALSE, by |-> "generate", packages |-> <<>>, software |-> <<>>, named |-> od_keys(asm.apps)]

asm_def_cut == [exists |-> TRUE, is_dir |-> FALSE, by |-> "generate, cut short", packages |-> <<>>, software |-> <<>>, named |-> <<>>]

then_gen_swe(w) == IF running(w) THEN gen_swe(w) ELSE w

\* assembler.py, Builder.generate, lines 174-191.
asm_generate(w) ==
  IF exists(w.defpath) /\ ~force THEN raise(w, "ValueError", "def already present")
  ELSE IF w.defpath.is_dir THEN raise(w, "IsADirectoryError", "def path")
  ELSE IF asm.apps # <<>> /\ ~force /\ ~asm.synced
    THEN raise(note([w EXCEPT !.defpath = asm_def_cut], "write def"), "ValueError", "Unsupported SVN state")
  ELSE then_gen_swe(update_control(note([w EXCEPT !.defpath = asm_def], "write def")))

\* assembler.py, Builder._check_paths, lines 203-216.
asm_check_paths(w) ==
  IF ~apptainer THEN raise(w, "ValueError", "apptainer not found")
  ELSE check_sifpath(IF ~is_file(w.defpath) \/ force THEN asm_generate(w) ELSE w)

exit_on_error(w, returncode) == IF returncode # 0 THEN sys_exit(w, returncode) ELSE w

\* assembler.py, Builder._run, lines 218-232.
asm_run(w, returncode, kind) ==
  IF ~running(w) THEN w
  ELSE IF nolog THEN apptainer_build(w, returncode, "sifpath", kind)
  ELSE exit_on_error(apptainer_build(note(w, "open log"), returncode, "sifpath", kind), returncode)

then_wrappers(w) == IF running(w) /\ asm.build_wrappers THEN wrappers(w) ELSE w

then_update_control(w) == IF running(w) THEN update_control(w) ELSE w

\* assembler.py, Builder.sif, lines 264-277.
asm_sif(w, returncode) ==
  then_update_control(asm_run(then_wrappers(asm_check_paths(w)), returncode, "file"))

\* assembler.py, Builder.sandbox, lines 279-283.
asm_sandbox(w, returncode) == asm_run(asm_check_paths(w), returncode, "dir")

\* An action has ended: the world it leaves, and how it ended.
Finish(w) ==
  /\ defpath' = w.defpath
  /\ sifpath' = w.sifpath
  /\ sandboxpath' = w.sandboxpath
  /\ self_control' = w.self_control
  /\ control_file' = w.control_file
  /\ sw_exp_dir' = w.sw_exp_dir
  /\ wrapper_dir' = w.wrapper_dir
  /\ log' = w.log
  /\ status' = IF running(w) THEN Returned ELSE w.status
  /\ UNCHANGED <<f, bag, packages, index, pc, err, errinfo, software, requests, closed, src, first,
                 self_data, force, prog, nolog, apptainer, asm>>

\* The actions of main.py's Builder, once _parse has nothing left to resolve.
MainGenerate ==
  /\ prog = "main"
  /\ pc = "indexed"
  /\ \E pkgdict \in PkgSections : Finish(main_generate(World, debpackages(<<>>, pkgdict)))

MainSif ==
  /\ prog = "main"
  /\ pc = "indexed"
  /\ \E pkgdict \in PkgSections, returncode \in ReturnCodes :
       Finish(main_sif(World, debpackages(<<>>, pkgdict), returncode))

MainSandbox ==
  /\ prog = "main"
  /\ pc = "indexed"
  /\ \E pkgdict \in PkgSections, returncode \in ReturnCodes :
       Finish(main_sandbox(World, debpackages(<<>>, pkgdict), returncode))

\* The actions of assembler.py's Builder.
AsmGenerate == prog = "assembler" /\ Finish(asm_generate(World))

AsmSif == prog = "assembler" /\ \E returncode \in ReturnCodes : Finish(asm_sif(World, returncode))

AsmSandbox == prog = "assembler" /\ \E returncode \in ReturnCodes : Finish(asm_sandbox(World, returncode))

AsmWrappers == prog = "assembler" /\ Finish(wrappers(World))

AsmGenSwe == prog = "assembler" /\ Finish(gen_swe(World))

\* The configurations of assembler.py's Builder.
App_a == [key |-> N_a, val |-> {"install", "run"}]

AsmConfigs ==
  { [software |-> <<F_X>>, software_map |-> <<[key |-> F_X, val |-> N_a]>>, apps |-> <<App_a>>,
     synced |-> TRUE, build_wrappers |-> TRUE, software_explorer |-> TRUE],
    [software |-> <<F_x>>, software_map |-> <<[key |-> F_x, val |-> N_a]>>, apps |-> <<App_a>>,
     synced |-> TRUE, build_wrappers |-> TRUE, software_explorer |-> TRUE],
    [software |-> <<F_X>>, software_map |-> <<[key |-> F_X, val |-> N_b]>>, apps |-> <<App_a>>,
     synced |-> TRUE, build_wrappers |-> FALSE, software_explorer |-> TRUE],
    [software |-> <<>>, software_map |-> <<>>, apps |-> <<App_a>>,
     synced |-> FALSE, build_wrappers |-> FALSE, software_explorer |-> FALSE],
    [software |-> <<F_y, F_X>>, software_map |-> <<[key |-> F_y, val |-> N_a], [key |-> F_X, val |-> N_a]>>,
     apps |-> <<App_a>>, synced |-> TRUE, build_wrappers |-> FALSE, software_explorer |-> FALSE] }

\* A session that runs generate, sif and sandbox: the index file is empty
\* and the software: section of main.py's configuration is absent, so _parse
\* has returned with nothing in self.software.
InitBuild ==
  /\ f = <<>>
  /\ bag = EmptyDict
  /\ packages = <<>>
  /\ index = <<>>
  /\ pc = "indexed"
  /\ err = "none"
  /\ errinfo = NoInfo
  /\ software = <<>>
  /\ requests = <<>>
  /\ closed = <<>>
  /\ src = <<>>
  /\ first = <<>>
  /\ self_data = FALSE
  /\ force \in BOOLEAN
  /\ nolog \in BOOLEAN
  /\ apptainer \in BOOLEAN
  /\ defpath \in {NoFile, OldFile, OldDir}
  /\ sifpath \in {NoPath, OldSif, OldSandbox}
  /\ sw_exp_dir = {}
  /\ wrapper_dir = {}
  /\ log = <<>>
  /\ status = Idle
  /\ \/ /\ prog = "main"
        /\ asm = NoAsm
        /\ sandboxpath \in {NoPath, OldSandbox}
        /\ self_control = <<>>
        /\ control_file = <<>>
     \/ /\ prog = "assembler"
        /\ asm \in AsmConfigs
        /\ sandboxpath = NoPath
        /\ \/ self_control = <<>> /\ control_file = <<>>
           \/ self_control = <<P_control>> /\ control_file \in ControlFiles

(***************************************************************************)
(* Vocabulary of the properties.                                           *)
(***************************************************************************)
\* The Software entries of the built index.
IndexSoftware == {index[i].val[j].val : <<i, j>> \in {<<i, j>> \in (1..Len(index)) \X (1..(MaxRecords + 1)) : j <= Len(index[i].val)}}

\* The parsed packages of a family, in the order parsed.
FamilyPackages(fam) == IF od_has(packages, fam) THEN od_get(packages, fam) ELSE <<>>

\* The code subset and the data subset of a (family, version).
CodeSubset(fam, swvers) ==
  SelectSeq(FamilyPackages(fam), LAMBDA p : p.software_vers = swvers /\ ~isdata(p))

DataSubset(fam, swvers) ==
  SelectSeq(FamilyPackages(fam), LAMBDA p : p.software_vers = swvers /\ isdata(p))

\* Two same-named packages of one subset whose versions rank equal.
EqualDuplicates(subset) ==
  \E i, j \in 1..Len(subset) :
    /\ i < j
    /\ subset[i].package = subset[j].package
    /\ version_compare(subset[i].pkg_vers, subset[j].pkg_vers) = 0

\* The (family, version) pairs of the parsed packages, family UTILITY left out.
ParsedPairs ==
  {<<packages[i].key, packages[i].val[j].software_vers>> :
     <<i, j>> \in {<<i, j>> \in (1..Len(packages)) \X (1..(MaxRecords + 1)) :
                     j <= Len(packages[i].val) /\ packages[i].key # S_UTILITY}}

\* The record that is open has a Package line and every field of a Package.
OpenRecordComplete == ({K_Package} \cup FIELDS) \subseteq DOMAIN bag

(***************************************************************************)
(* C1. The record open at the end of the stream is flushed: if it carries  *)
(* Version, Nmrbox-Software and Nmrbox-Version and its family is not       *)
(* UTILITY, the built index holds a Package of its name under its family   *)
(* and version. The code never flushes the bag after the loop, so this is  *)
(* violated.                                                               *)
(***************************************************************************)
C1_LastRecordFlushed ==
  (pc = "indexed" /\ OpenRecordComplete /\ upper(bag[K_Software]) # S_UTILITY)
    => \E sw \in IndexSoftware :
         /\ sw.software = upper(bag[K_Software])
         /\ sw.version = bag[K_SoftwareVersion]
         /\ \E p \in Range(sw.packages) \cup Range(sw.data_packages) : p.package = bag[K_Package]

(***************************************************************************)
(* C2. The stanza-parsing pass never raises, whatever the lines are. The   *)
(* code raises KeyError when Version, Nmrbox-Software and Nmrbox-Version   *)
(* all precede the first Package line, so this is violated.                *)
(***************************************************************************)
C2_StanzaPassNeverRaises == ~(pc = "raised" /\ err = "KeyError")

(***************************************************************************)
(* C3. A build that succeeds has met no code or data subset with two       *)
(* same-named packages of Debian-equal versions: every such subset makes   *)
(* the build fail. The code compares each package with the running         *)
(* maximum only, so versions 9, 10, 9 pass and this is violated.           *)
(***************************************************************************)
C3_EqualDuplicatesAreFatal ==
  pc = "indexed" =>
    \A pair \in ParsedPairs :
      /\ ~EqualDuplicates(CodeSubset(pair[1], pair[2]))
      /\ ~EqualDuplicates(DataSubset(pair[1], pair[2]))

\* The entry of the software: section handled last.
LastRequest == requests[Len(requests)]

\* The order of first appearance: a sequence without its repetitions.
RECURSIVE dedup(_, _)
dedup(seen, rest) ==
  IF rest = <<>> THEN seen
  ELSE dedup(IF Head(rest) \in Range(seen) THEN seen ELSE Append(seen, Head(rest)), Tail(rest))

\* The versions of a family in the order they first appear in the stream.
VersionsOf(fam) ==
  dedup(<<>>, [i \in 1..Len(FamilyPackages(fam)) |-> FamilyPackages(fam)[i].software_vers])

UnknownVersionRaised == pc = "raised" /\ err = "ValueError" /\ errinfo.kind = "version not found"

(***************************************************************************)
(* C4 as stated. An unknown version of an existing family fails with an    *)
(* error that carries the requested version and the family's versions in   *)
(* sorted order. The code joins the keys of the index in insertion order,  *)
(* so this is violated when version 2 enters the index before version 1.   *)
(***************************************************************************)
C4_ValidVersionsSorted ==
  UnknownVersionRaised =>
    /\ errinfo.vstr = str(LastRequest.vers)
    /\ errinfo.valid = join(<<",">>, sorted(VersionsOf(upper(LastRequest.s))))

(***************************************************************************)
(* C4 as amended. An unknown version of an existing family fails with an   *)
(* error that carries the requested version, which is none of the family's *)
(* versions, and the family's versions in index insertion order, the order *)
(* in which they first appear in the stream.                               *)
(***************************************************************************)
C4_ValidVersionsInIndexOrder ==
  UnknownVersionRaised =>
    /\ errinfo.name = upper(LastRequest.s)
    /\ errinfo.vstr = str(LastRequest.vers)
    /\ errinfo.vstr \notin Range(VersionsOf(errinfo.name))
    /\ VersionsOf(errinfo.name) # <<>>
    /\ errinfo.valid = join(<<",">>, VersionsOf(errinfo.name))

\* An unknown version was requested of a family whose versions entered the
\* index in an order that is not the sorted one.
C4_Witness ==
  /\ UnknownVersionRaised
  /\ Len(VersionsOf(errinfo.name)) >= 2
  /\ VersionsOf(errinfo.name) # sorted(VersionsOf(errinfo.name))

(***************************************************************************)
(* C5. A request without a version, for a family of the index, succeeds    *)
(* and adds to self.software exactly the entries of the family whose       *)
(* max_package_vers is the family-wide maximum mv, a string that no        *)
(* entry's max_package_vers outranks under Debian comparison: every entry  *)
(* with that maximum, in index order, no entry with a lower one, and at    *)
(* least one entry. What was resolved before stays.                        *)
(***************************************************************************)
LatestRequestStep ==
  /\ pc = "indexed"
  /\ Len(requests') = Len(requests) + 1
  /\ requests'[Len(requests')].vers.type = "None"
  /\ od_has(index, upper(requests'[Len(requests')].s))

LatestResultExact ==
  LET entries == od_values(od_get(index, upper(requests'[Len(requests')].s)))
      maxima == {max_package_vers(entries[i]) : i \in 1..Len(entries)}
      added == SubSeq(software', Len(software) + 1, Len(software'))
  IN /\ pc' = "indexed"
     /\ Len(software') > Len(software)
     /\ SubSeq(software', 1, Len(software)) = software
     /\ \E mv \in maxima :
          /\ \A v \in maxima : version_compare(v, mv) # 1
          /\ added = SelectSeq(entries, LAMBDA e : max_package_vers(e) = mv)
     /\ \A i \in 1..Len(added) : \A j \in 1..Len(entries) :
          version_compare(max_package_vers(entries[j]), max_package_vers(added[i])) # 1

C5_LatestReturnsAllMaxima == [][LatestRequestStep => LatestResultExact]_vars

\* A request without a version returned two tied entries of a family that
\* has a third entry with a lower maximum.
C5_Witness ==
  /\ pc = "indexed"
  /\ Len(requests) = 1
  /\ requests[1].vers.type = "None"
  /\ Len(software) = 2
  /\ max_package_vers(software[1]) = max_package_vers(software[2])
  /\ Len(od_get(index, upper(requests[1].s))) = 3

\* result holds one package per name of subset, each an element of subset that
\* outranks every other same-named element of subset.
Collapsed(result, subset) ==
  /\ {result[i].package : i \in 1..Len(result)} = {subset[k].package : k \in 1..Len(subset)}
  /\ \A i, j \in 1..Len(result) : i # j => result[i].package # result[j].package
  /\ \A i \in 1..Len(result) :
       \E k \in 1..Len(subset) :
         /\ subset[k] = result[i]
         /\ \A m \in (1..Len(subset)) \ {k} :
              subset[m].package = result[i].package
                => version_compare(result[i].pkg_vers, subset[m].pkg_vers) = 1

(***************************************************************************)
(* C6 as stated. After a successful build the packages of every Software   *)
(* are the collapse of its code subset and its data_packages the collapse  *)
(* of its data subset. A Software without code packages holds its data     *)
(* packages in packages, so this is violated.                              *)
(***************************************************************************)
C6_CollapsedSubsets ==
  pc = "indexed" =>
    \A sw \in IndexSoftware :
      /\ Collapsed(sw.packages, CodeSubset(sw.software, sw.version))
      /\ Collapsed(sw.data_packages, DataSubset(sw.software, sw.version))

(***************************************************************************)
(* C6 as amended. After a successful build the packages of every Software  *)
(* are the collapse of its code subset and its data_packages the collapse  *)
(* of its data subset: one Package per package name, strictly greater      *)
(* under Debian comparison than every other same-named package of the      *)
(* subset; except that with an empty code subset packages is the collapse  *)
(* of the data subset and data_packages is empty.                          *)
(***************************************************************************)
C6_CollapsedOrPromoted ==
  pc = "indexed" =>
    \A sw \in IndexSoftware :
      IF CodeSubset(sw.software, sw.version) = <<>>
        THEN /\ Collapsed(sw.packages, DataSubset(sw.software, sw.version))
             /\ sw.data_packages = <<>>
        ELSE /\ Collapsed(sw.packages, CodeSubset(sw.software, sw.version))
             /\ Collapsed(sw.data_packages, DataSubset(sw.software, sw.version))

\* A build succeeded that collapsed same-named code packages.
C6_Witness ==
  /\ pc = "indexed"
  /\ \E sw \in IndexSoftware :
       /\ CodeSubset(sw.software, sw.version) # <<>>
       /\ Len(sw.packages) < Len(CodeSubset(sw.software, sw.version))

\* The orders a list can be in.
Orders(seq) ==
  {[i \in 1..Len(seq) |-> seq[q[i]]] :
     q \in {r \in [1..Len(seq) -> 1..Len(seq)] : \A i, j \in 1..Len(seq) : i # j => r[i] # r[j]}}

(***************************************************************************)
(* C7. For every Software of the index, max_package_vers is the version of *)
(* one of its packages that no package version outranks under Debian       *)
(* comparison; with versions 9 and 10 it is 10; and in whatever order the  *)
(* packages are, the result ranks the same.                                *)
(***************************************************************************)
C7_MaxPackageVersIsDebianHighest ==
  pc = "indexed" =>
    \A sw \in IndexSoftware :
      LET vs == {sw.packages[i].pkg_vers : i \in 1..Len(sw.packages)}
      IN /\ max_package_vers(sw) \in vs
         /\ \A v \in vs : version_compare(v, max_package_vers(sw)) # 1
         /\ (vs = {V_9, V_10} => max_package_vers(sw) = V_10)
         /\ \A perm \in Orders(sw.packages) :
              version_compare(maxpackage_vers(perm, "pkg_vers"), max_package_vers(sw)) = 0

\* A Software holds version 9 first and version 10 after it.
C7_Witness ==
  /\ pc = "indexed"
  /\ \E sw \in IndexSoftware :
       /\ Len(sw.packages) = 2
       /\ sw.packages[1].pkg_vers = V_9
       /\ sw.packages[2].pkg_vers = V_10

(***************************************************************************)
(* C8. Every Software of a built index has packages; and when the code     *)
(* subset of its (family, version) is empty, its packages are data         *)
(* packages, one of every name of the data subset, and its data_packages   *)
(* is empty.                                                               *)
(***************************************************************************)
C8_PackagesNonEmptyDataPromoted ==
  pc = "indexed" =>
    \A sw \in IndexSoftware :
      /\ sw.packages # <<>>
      /\ CodeSubset(sw.software, sw.version) = <<>> =>
           /\ sw.data_packages = <<>>
           /\ \A i \in 1..Len(sw.packages) : isdata(sw.packages[i])
           /\ {sw.packages[i].package : i \in 1..Len(sw.packages)}
                = {p.package : p \in Range(DataSubset(sw.software, sw.version))}

\* A Software was built from data packages only.
C8_Witness ==
  /\ pc = "indexed"
  /\ \E sw \in IndexSoftware :
       /\ CodeSubset(sw.software, sw.version) = <<>>
       /\ DataSubset(sw.software, sw.version) # <<>>

(***************************************************************************)
(* C9. Family UTILITY is no key of the index, no Software of the index or  *)
(* of self.software is of family UTILITY or holds a package of family      *)
(* UTILITY, and a request whose family uppercases to UTILITY fails as a    *)
(* family that is not found.                                               *)
(***************************************************************************)
NoUtility(sw) ==
  /\ sw.software # S_UTILITY
  /\ \A p \in Range(sw.packages) \cup Range(sw.data_packages) : p.software # S_UTILITY

C9_UtilityNeverResolved ==
  /\ \A i \in 1..Len(index) : index[i].key # S_UTILITY
  /\ \A sw \in IndexSoftware : NoUtility(sw)
  /\ \A i \in 1..Len(software) : NoUtility(software[i])
  /\ \A i \in 1..Len(requests) :
       upper(requests[i].s) = S_UTILITY =>
         /\ i = Len(requests)
         /\ pc = "raised"
         /\ err = "ValueError"
         /\ errinfo.kind = "not found"
         /\ errinfo.name = S_UTILITY

\* UTILITY packages were parsed, another family was resolved, and then a
\* request for Utility failed.
C9_Witness ==
  /\ od_has(packages, S_UTILITY)
  /\ software # <<>>
  /\ Len(requests) = 2
  /\ upper(requests[2].s) = S_UTILITY
  /\ pc = "raised"

\* The Package of a bag that holds every field.
PackageOf(b) ==
  [package |-> b[K_Package], pkg_vers |-> b[K_Version],
   software |-> upper(b[K_Software]), software_vers |-> b[K_SoftwareVersion]]

Complete(b) == FIELDS \subseteq DOMAIN b

\* The Packages of the complete closed records of a family, in order.
ClosedPackages(fam) ==
  LET recs == SelectSeq(closed, LAMBDA b : Complete(b) /\ upper(b[K_Software]) = fam)
  IN [i \in 1..Len(recs) |-> PackageOf(recs[i])]

(***************************************************************************)
(* C10. A record, begun by a Package line and closed by the next one,      *)
(* yields a Package exactly if it holds Version, Nmrbox-Software and       *)
(* Nmrbox-Version: the packages parsed are, family by family and in order, *)
(* the Packages of the complete closed records, and closing a record never *)
(* raises.                                                                 *)
(***************************************************************************)
C10_CompleteRecordsYieldPackages ==
  /\ \A fam \in {packages[i].key : i \in 1..Len(packages)}
              \cup {upper(b[K_Software]) : b \in {c \in Range(closed) : Complete(c)}} :
       /\ od_has(packages, fam)
       /\ od_get(packages, fam) = ClosedPackages(fam)
  /\ (pc = "raised" /\ err = "KeyError") => K_Package \notin DOMAIN bag

\* A record missing a field was dropped and a later complete record yielded
\* its Package.
C10_Witness ==
  \E i, j \in 1..Len(closed) :
    /\ i < j
    /\ ~Complete(closed[i])
    /\ Complete(closed[j])
    /\ PackageOf(closed[j]) \in Range(FamilyPackages(upper(closed[j][K_Software])))

\* The lines read so far, and the places of the Package lines among them.
LinesRead == SubSeq(src, 1, Len(src) - Len(f))

StartsRecord(line) ==
  /\ Len(line) > Len(K_Package)
  /\ SubSeq(line, 1, Len(K_Package) + 1) = K_Package \o <<":">>

RecordStarts(ls) == {i \in 1..Len(ls) : StartsRecord(ls[i])}

\* The Key: value lines among ls as a mapping, a later line of a key replacing
\* an earlier one.
FieldPut(acc, kv) == IF kv.key = None THEN acc ELSE dict_set(acc, kv.key, kv.value)

RECURSIVE FieldsOf(_, _)
FieldsOf(acc, ls) ==
  IF ls = <<>> THEN acc ELSE FieldsOf(FieldPut(acc, splitter(Head(ls))), Tail(ls))

\* The record of ls that begins at place i: the fields of the lines from i up
\* to the next Package line or the last line.
RecordAt(ls, starts, i) ==
  FieldsOf(EmptyDict,
           SubSeq(ls, i, IF \E j \in starts : j > i
                           THEN (CHOOSE j \in starts : j > i /\ \A k \in starts : k > i => j <= k) - 1
                           ELSE Len(ls)))

\* The places in starts in increasing order.
RECURSIVE InOrder(_)
InOrder(starts) ==
  IF starts = {} THEN <<>>
  ELSE LET lo == CHOOSE i \in starts : \A j \in starts : i <= j
       IN <<lo>> \o InOrder(starts \ {lo})

\* The open bag and the number of closed records, for the lines ls read so
\* far and the places starts of the Package lines among them.
OpenRecordCut(ls, starts) ==
  IF starts = {}
    THEN closed = <<>> /\ bag = FieldsOf(EmptyDict, ls)
    ELSE /\ Len(closed) = Cardinality(starts) - 1
         /\ bag = FieldsOf(EmptyDict,
                           SubSeq(ls, CHOOSE i \in starts : \A j \in starts : j <= i, Len(ls)))

ClosedRecordsCut(ls, starts, places) ==
  \A n \in 1..Len(closed) : closed[n] = RecordAt(ls, starts, places[n])

RecordsCut(ls, starts) ==
  /\ OpenRecordCut(ls, starts)
  /\ f = <<>> => ClosedRecordsCut(ls, starts, InOrder(starts))

(***************************************************************************)
(* C11. Records are bounded by Package lines only: while lines are read    *)
(* without an exception, the records closed so far and the open bag are    *)
(* exactly the records obtained by cutting the lines read at every line    *)
(* that starts with Package: and taking the Key: value lines of each piece *)
(* (before the first Package line the bag holds the fields read so far).   *)
(* Blank and colon-less lines end no record and start none, and a record   *)
(* holds no field of the record before it. The open bag and the number of  *)
(* closed records are compared after every line, the closed records, which *)
(* never change once closed, after the last line.                          *)
(***************************************************************************)
C11_RecordsCutAtPackageLines ==
  err # "KeyError" => RecordsCut(LinesRead, RecordStarts(LinesRead))

\* A record with a blank and a colon-less line inside it was closed with its
\* fields from both sides of them, and the record open after it holds its
\* Package line alone although the one before it held every field.
C11_Witness ==
  /\ pc = "reading"
  /\ closed # <<>>
  /\ Complete(closed[Len(closed)])
  /\ K_Description \in DOMAIN closed[Len(closed)]
  /\ DOMAIN bag = {K_Package}
  /\ \E i \in 1..Len(LinesRead) : LinesRead[i] = L_blank
  /\ \E i \in 1..Len(LinesRead) : LinesRead[i] = L_nocolon

\* The families of the index.
IndexFamilies == {index[i].key : i \in 1..Len(index)}

(***************************************************************************)
(* C12. The family of a request is uppercased before it is looked up: a    *)
(* request whose uppercased family is in the index is never answered with  *)
(* not found, however it is written, and what it adds to self.software is  *)
(* an entry of that family; a request whose uppercased family is not in    *)
(* the index fails with a ValueError that carries the family, uppercased.  *)
(***************************************************************************)
C12_FamilyUppercasedBeforeLookup ==
  requests # <<>> =>
    IF upper(LastRequest.s) \in IndexFamilies
      THEN /\ errinfo.kind # "not found"
           /\ pc = "indexed" =>
                /\ software # <<>>
                /\ software[Len(software)]
                     \in Range(od_values(od_get(index, upper(LastRequest.s))))
      ELSE /\ pc = "raised"
           /\ err = "ValueError"
           /\ errinfo.kind = "not found"
           /\ errinfo.name = upper(LastRequest.s)

\* A request written in lower case was resolved against the uppercase family
\* of the index, and the next request, for a family the index does not hold,
\* failed.
C12_Witness ==
  /\ Len(requests) = 2
  /\ requests[1].s = F_x
  /\ software # <<>>
  /\ software[1].software = upper(F_x)
  /\ requests[2].s = F_nosuch
  /\ pc = "raised"
  /\ errinfo.name = upper(F_nosuch)

\* A request that the index cannot serve: unknown family or unknown version.
RequestFails(r) ==
  \/ upper(r.s) \notin IndexFamilies
  \/ /\ r.vers.type # "None"
     /\ ~od_has(od_get(index, upper(r.s)), str(r.vers))

(***************************************************************************)
(* C13. If a request of the session fails, for an unknown family or an     *)
(* unknown version and at whatever place among the requests, the session   *)
(* has ended with the error: generate writes no def file, and a def file   *)
(* that was there is as it was.                                            *)
(***************************************************************************)
C13_FailedRequestAbortsSession ==
  (\E i \in 1..Len(requests) : RequestFails(requests[i])) =>
    /\ pc = "raised"
    /\ err = "ValueError"
    /\ errinfo.kind \in {"not found", "version not found"}
    /\ defpath \in {NoFile, OldFile}
    /\ \A i \in 1..(Len(requests) - 1) : ~RequestFails(requests[i])

\* The second request failed after the first had resolved, in a session
\* that was forced to overwrite the def file it found.
C13_Witness ==
  /\ Len(requests) = 2
  /\ software # <<>>
  /\ RequestFails(requests[2])
  /\ pc = "raised"
  /\ force
  /\ defpath = OldFile

\* name=version of every package of a list.
Specs(ps) == [j \in 1..Len(ps) |-> ps[j].package \o <<"=">> \o ps[j].pkg_vers]

Names(ps) == [j \in 1..Len(ps) |-> ps[j].package]

\* What a request resolves to in the index.
Resolved(r) ==
  IF r.vers.type = "None"
    THEN latest_packages(od_values(od_get(index, upper(r.s))))
    ELSE <<od_get(od_get(index, upper(r.s)), str(r.vers))>>

\* The packages named in the packages: section, as the def file lists them.
NamedPackages == [i \in 1..Len(defpath.named) |-> SubSeq(defpath.named[i], 3, Len(defpath.named[i]))]

(***************************************************************************)
(* C14. The packages line of a generated def file is, after the packages   *)
(* of the packages: section, the concatenation in request order of every   *)
(* resolved Software's packages, followed by its data_packages exactly if  *)
(* self.data is set, each as name=version; and the packages of a Software  *)
(* are in the order in which their names first appear in the index file,   *)
(* not sorted.                                                             *)
(***************************************************************************)
C14_AggregateInRequestOrder ==
  pc = "generated" =>
    /\ software = Flatten([i \in 1..Len(requests) |-> Resolved(requests[i])])
    /\ defpath.packages =
         join(<<" ">>,
              NamedPackages \o
              Flatten([i \in 1..Len(software) |->
                         Specs(software[i].packages)
                           \o (IF self_data THEN Specs(software[i].data_packages) ELSE <<>>)]))
    /\ \A i \in 1..Len(software) :
         LET code == CodeSubset(software[i].software, software[i].version)
             dat == DataSubset(software[i].software, software[i].version)
         IN IF code = <<>>
              THEN /\ Names(software[i].packages) = dedup(<<>>, Names(dat))
                   /\ software[i].data_packages = <<>>
              ELSE /\ Names(software[i].packages) = dedup(<<>>, Names(code))
                   /\ Names(software[i].data_packages) = dedup(<<>>, Names(dat))

\* A def file was generated with data packages for two requests, the first
\* of them resolved to a Software that holds package b before package a and
\* a data package.
C14_Witness ==
  /\ pc = "generated"
  /\ self_data
  /\ Len(requests) = 2
  /\ Len(software) = 2
  /\ Names(software[1].packages) = <<N_b, N_a>>
  /\ software[1].data_packages # <<>>
  /\ software[2] # software[1]
  /\ defpath.named # <<>>

\* The same without data packages: the Software holds a data package that
\* the def file does not list.
C14_WitnessNoData ==
  /\ pc = "generated"
  /\ ~self_data
  /\ \E i \in 1..Len(software) : software[i].data_packages # <<>>

(***************************************************************************)
(* C15. No request changes the index: a step that handles a request,       *)
(* served or failing, leaves the index as it is, and after any requests    *)
(* the index is the one the build made of the parsed packages, with the    *)
(* same families, versions, packages and data_packages.                    *)
(***************************************************************************)
C15_RequestsLeaveIndex ==
  [][requests' # requests =>
       /\ index' = index
       /\ build_index(<<>>, packages') = Ok(index')]_vars

\* A latest request was served and a request for an unknown version failed
\* after it, the index being built.
C15_Witness ==
  /\ Len(requests) = 2
  /\ requests[1].vers.type = "None"
  /\ software # <<>>
  /\ UnknownVersionRaised
  /\ index # <<>>

\* A step that handles a request with a version the index holds.
ExplicitRequestStep ==
  /\ pc = "indexed"
  /\ Len(requests') = Len(requests) + 1
  /\ requests'[Len(requests')].vers.type # "None"
  /\ od_has(index, upper(requests'[Len(requests')].s))
  /\ od_has(od_get(index, upper(requests'[Len(requests')].s)), str(requests'[Len(requests')].vers))

(***************************************************************************)
(* C16. A request with a version that the index holds for the family adds  *)
(* to self.software the one Software stored at index[family][version] and  *)
(* nothing else, whatever the other versions of the family are.            *)
(***************************************************************************)
C16_ExplicitVersionReturnsEntry ==
  [][ExplicitRequestStep =>
       /\ pc' = "indexed"
       /\ software' = Append(software,
                             od_get(od_get(index, upper(requests'[Len(requests')].s)),
                                    str(requests'[Len(requests')].vers)))
       /\ software'[Len(software')].version = str(requests'[Len(requests')].vers)
       /\ software'[Len(software')].software = upper(requests'[Len(requests')].s)]_vars

\* A request with a version was served with the entry of that version
\* although another version of the family has a higher maximum.
C16_Witness ==
  /\ pc = "indexed"
  /\ Len(requests) = 1
  /\ requests[1].vers.type = "str"
  /\ Len(software) = 1
  /\ software[1].version = requests[1].vers.s
  /\ \E e \in Range(od_values(od_get(index, upper(requests[1].s)))) :
       version_compare(max_package_vers(e), max_package_vers(software[1])) = 1

\* The (family, version) pairs of the index, and the entries stored at one.
IndexPairs ==
  {<<index[i].key, index[i].val[j].key>> :
     <<i, j>> \in {<<i, j>> \in (1..Len(index)) \X (1..(MaxRecords + 1)) : j <= Len(index[i].val)}}

EntriesAt(fam, swvers) ==
  {<<i, j>> \in (1..Len(index)) \X (1..(MaxRecords + 1)) :
     /\ j <= Len(index[i].val)
     /\ index[i].key = fam
     /\ index[i].val[j].key = swvers}

(***************************************************************************)
(* C17. After a build that succeeds, the (family, version) pairs of the    *)
(* index are exactly the distinct (software, software_vers) pairs of the   *)
(* parsed Packages without those of family UTILITY; every pair is stored   *)
(* once, and the Software stored at it is of that family and version and   *)
(* holds packages of that family and version only.                         *)
(***************************************************************************)
C17_IndexPairsAreParsedPairs ==
  pc = "indexed" =>
    /\ IndexPairs = ParsedPairs
    /\ \A pair \in IndexPairs :
         /\ Cardinality(EntriesAt(pair[1], pair[2])) = 1
         /\ \A ij \in EntriesAt(pair[1], pair[2]) :
              LET sw == index[ij[1]].val[ij[2]].val
              IN /\ sw.software = pair[1]
                 /\ sw.version = pair[2]
                 /\ \A p \in Range(sw.packages) \cup Range(sw.data_packages) :
                      p.software = pair[1] /\ p.software_vers = pair[2]

\* An index of one family with two versions, built from a stream that also
\* holds a UTILITY package.
C17_Witness ==
  /\ pc = "indexed"
  /\ Cardinality(IndexPairs) = 2
  /\ Len(index) = 1
  /\ od_has(packages, S_UTILITY)

(***************************************************************************)
(* C18. Every family key of the index, and of the parsed packages, is in   *)
(* upper case, no family is stored twice, and every complete record whose  *)
(* Nmrbox-Software uppercases to a family of the index has its package     *)
(* name in the one Software of that family and of its Nmrbox-Version:      *)
(* records whose families differ in letter case only share the family      *)
(* entry and, with the same Nmrbox-Version, the Software.                  *)
(***************************************************************************)
C18_FamiliesUppercaseAndMerged ==
  /\ \A i \in 1..Len(packages) : packages[i].key = upper(packages[i].key)
  /\ pc = "indexed" =>
       /\ \A i \in 1..Len(index) : index[i].key = upper(index[i].key)
       /\ \A i, j \in 1..Len(index) : index[i].key = index[j].key => i = j
       /\ \A n \in 1..Len(closed) :
            (Complete(closed[n]) /\ upper(closed[n][K_Software]) # S_UTILITY) =>
              /\ Cardinality({sw \in IndexSoftware :
                                /\ sw.software = upper(closed[n][K_Software])
                                /\ sw.version = closed[n][K_SoftwareVersion]}) = 1
              /\ \E sw \in IndexSoftware :
                   /\ sw.software = upper(closed[n][K_Software])
                   /\ sw.version = closed[n][K_SoftwareVersion]
                   /\ closed[n][K_Package]
                        \in Range(Names(sw.packages)) \cup Range(Names(sw.data_packages))

\* A record of family x and a record of family X, of the same Nmrbox-Version
\* and of different package names, are both in one Software of family X.
C18_Witness ==
  /\ pc = "indexed"
  /\ \E m, n \in 1..Len(closed) : \E sw \in IndexSoftware :
       /\ Complete(closed[m]) /\ Complete(closed[n])
       /\ closed[m][K_Software] = F_x
       /\ closed[n][K_Software] = F_X
       /\ closed[m][K_SoftwareVersion] = sw.version
       /\ closed[n][K_SoftwareVersion] = sw.version
       /\ closed[m][K_Package] # closed[n][K_Package]
       /\ {closed[m][K_Package], closed[n][K_Package]} \subseteq Range(Names(sw.packages))

C19_WitnessRaised ==
  /\ first # <<>>
  /\ pc = "raised"

\* What a step adds to self.software.
Added == SubSeq(software', Len(software) + 1, Len(software'))

(***************************************************************************)
(* C20. A request without a version treats alike the entries of the family *)
(* whose max_package_vers rank equal under Debian comparison, however they *)
(* are spelled: it returns both of two such entries or neither. The code   *)
(* keeps the entries whose max_package_vers is the same string as the      *)
(* first highest one met, so with maxima 0:9 and 9 it returns the first    *)
(* entry alone and this is violated.                                       *)
(***************************************************************************)
C20_DebianEqualMaximaAlike ==
  [][LatestRequestStep =>
       \A e1, e2 \in Range(od_values(od_get(index, upper(requests'[Len(requests')].s)))) :
         version_compare(max_package_vers(e1), max_package_vers(e2)) = 0
           => (e1 \in Range(Added) <=> e2 \in Range(Added))]_vars

(***************************************************************************)
(* The generate, sif and sandbox actions.                                  *)
(***************************************************************************)
\* The latest action has done the operation op.
Did(op) == \E i \in 1..Len(log) : log[i] = op

GenerateStep == MainGenerate \/ AsmGenerate

BuildStep == MainSif \/ MainSandbox \/ AsmSif \/ AsmSandbox

\* With force unset no action changes a def path that exists, generate
\* raises "already present", and sif and sandbox neither write the def file
\* nor call generate when the def file is there.
DefFileKept ==
  [][~force =>
       /\ exists(defpath) => defpath' = defpath
       /\ GenerateStep /\ exists(defpath) => status'.msg = "def already present"
       /\ BuildStep /\ is_file(defpath) => ~Did("write def")' /\ status'.msg # "def already present"]_vars

\* C21: with force unset, no generate, sif or sandbox action changes a def
\* file that exists (generate raises "already present", sif and sandbox call
\* generate only when the def file is missing); with force set, an action
\* that returns has written the def file anew.
C21_ForceGuardsDefFile ==
  [][/\ ~force =>
          /\ exists(defpath) => defpath' = defpath
          /\ GenerateStep /\ exists(defpath) => status'.msg = "def already present"
          /\ BuildStep /\ is_file(defpath) => ~Did("write def")' /\ status'.msg # "def already present"
     /\ force /\ (GenerateStep \/ BuildStep) /\ status'.kind = "returned" => Did("write def")']_vars

\* C22: a sif or sandbox action that raises because the sif path exists and
\* force is unset has had no effect: apptainer was not run, the sif path is
\* as it was, and no def file, control file or software-explorer file was
\* written.
C22_RejectedBuildHasNoEffect ==
  [][BuildStep /\ status'.msg = "sif already present" =>
       /\ sifpath' = sifpath
       /\ defpath' = defpath
       /\ control_file' = control_file
       /\ sw_exp_dir' = sw_exp_dir
       /\ ~Did("run apptainer")'
       /\ ~Did("write def")'
       /\ ~Did("write control")'
       /\ ~Did("write swe")']_vars

\* The latest action has read or written the control file after doing op.
ControlTouchedAfter(op) ==
  \E i, j \in 1..Len(log) :
    i < j /\ log[i] = op /\ log[j] \in {"read control", "write control"}

\* C23: when the apptainer build of a sif action returns a non-zero exit
\* code, the process exits and the action does not go on to the control
\* file, with nolog set or unset.
C23_RunExitsOnError ==
  [][AsmSif /\ Did("apptainer failed")' =>
       status'.kind = "exited" /\ ~ControlTouchedAfter("apptainer failed")']_vars

\* C24: once a call of _update_control has rewritten the control file,
\* self._control is None, and the rest of the action neither reads nor writes
\* the control file.
C24_UpdateControlIdempotent ==
  [][Did("write control")' =>
       self_control' = <<>> /\ ~ControlTouchedAfter("write control")']_vars

Next == ReadLine \/ BuildIndex \/ Request

Spec == Init /\ [][Next]_vars

NextParse == ReadLine \/ BuildIndex

SpecParse == InitParse /\ [][NextParse]_vars

NextSession == ReadLine \/ BuildIndex \/ Request \/ Generate

SpecSession == InitSession /\ [][NextSession]_vars

\* One call of parse_nmrbox_list on the files with partial and noisy records.
SpecRecords == InitTwice /\ [][NextParse]_vars

NextTwice == ReadLine \/ BuildIndex \/ CallAgain

SpecTwice == InitTwice /\ [][NextTwice]_vars

NextBuild ==
  \/ MainGenerate \/ MainSif \/ MainSandbox
  \/ AsmGenerate \/ AsmSif \/ AsmSandbox \/ AsmWrappers \/ AsmGenSwe

SpecBuild == InitBuild /\ [][NextBuild]_vars
====
